---- MODULE Spec2Model ----
(***************************************************************************)
(* NeuraOrchestra (src/src/main.py): the Record Store tables, the request  *)
(* handlers of the HTTP service and the mlflow Tracking Mirror they call.  *)
(*                                                                         *)
(* A request is handled by a worker thread of the server's thread pool.    *)
(* Its handler is split at its blocking points: it gets its session and    *)
(* runs its queries and its commit against the store, then makes its       *)
(* mlflow calls, and the session is closed when the response or the error  *)
(* has left the handler (get_db's finally).                                *)
(*                                                                         *)
(* Requests are taken one at a time: a worker thread takes its next        *)
(* request when the one before has ended.  mlflow's fluent API keeps its   *)
(* active run per thread, and a logging call made while the thread has no  *)
(* active run starts one that stays active.                                *)
(*                                                                         *)
(* ModelFeature (src/src/model_feature.py) is not used by the service: its  *)
(* instances and their calls are the specification SpecFeature.            *)
(*                                                                         *)
(* The created_at / timestamp columns are not carried in the rows: no      *)
(* handler reads them back.  Floats are small integers.                    *)
(***************************************************************************)
EXTENDS Integers, Sequences, FiniteSets, TLC

\* ---- bounds of the model ------------------------------------------------
\* Rows the three append-only tables metrics, hyperparameters and
\* model_versions may hold together.  training_jobs is bounded by UUIDs.
MaxRows == 2

\* ModelFeature instances created.
MaxFeatures == 2

\* ---- input domains ------------------------------------------------------
Workers == {"t1"}
UUIDs == {"u1", "u2"}
ModelNames == {"resnet"}
Versions == {"v1"}
Statuses == {"pending", "done"}
MetricNames == {"accuracy"}
MetricValues == {1}
ParamNames == {"lr"}
ParamValues == {1}
ConfigMaps == {{<<"epochs", 10>>}}
HyperparameterMaps == {{<<"lr", 1>>}}

VARIABLES
  model_versions,   \* table model_versions, in id order
  training_jobs,    \* table training_jobs, in id order
  metrics,          \* table metrics, in id order
  hyperparameters,  \* table hyperparameters, in id order
  runs,             \* the runs held by the tracking server
  active,           \* per worker thread, mlflow's active run (0: none)
  sessions,         \* the workers whose request holds an open session
  pc,               \* per worker, the position of its request
  req,              \* per worker, the request it is handling
  local,            \* per worker, the handler's refreshed db_job
  resp,             \* per worker, the response or error of its request
  logged_for,       \* history: per metrics row, the path job_id of its call
  last_set,         \* history: per job_id, the last status update_status wrote
  features,         \* the ModelFeature instances, in order of creation
  called,           \* the last call on a ModelFeature and what it returned or raised
  lifecycle         \* history: per instance, its last initialize() or cleanup()

store == <<model_versions, training_jobs, metrics, hyperparameters>>
mirror == <<runs, active>>
history == <<logged_for, last_set>>
feature == <<features, called, lifecycle>>
service == <<store, mirror, history, sessions, pc, req, local, resp>>
vars == <<model_versions, training_jobs, metrics, hyperparameters, runs, active,
          sessions, pc, req, local, resp, logged_for, last_set,
          features, called, lifecycle>>

NoReq == [op |-> "none"]
NoRow == [id |-> 0]
NoResp == [code |-> 0]

\* ---- pydantic request bodies --------------------------------------------
ModelVersionCreate == [model_name : ModelNames, version : Versions]

TrainingJobCreate ==
  [model_name : ModelNames, hyperparameters : HyperparameterMaps, config : ConfigMaps]

MetricCreate == [job_id : UUIDs, metric_name : MetricNames, value : MetricValues]

HyperparameterCreate == [job_id : UUIDs, param_name : ParamNames, param_value : ParamValues]

TrainingJobStatusUpdate == [job_id : UUIDs, status : Statuses]

\* ---- responses ----------------------------------------------------------
Ok(b) == [code |-> 200, body |-> b]

HTTPException(status_code, detail) == [code |-> status_code, detail |-> detail]

\* An exception no handler catches: the server answers 500.
Unhandled(e) == [code |-> 500, error |-> e]

\* ---- Record Store -------------------------------------------------------
Min(S) == CHOOSE x \in S : \A y \in S : x <= y

\* Mutant of FirstJob: the filter on job_id is lost, any job is found.
FirstJobUnfiltered(job_id) == IF Len(training_jobs) = 0 THEN 0 ELSE 1

\* db.query(TrainingJob).filter(TrainingJob.job_id == job_id).first():
\* the index of the first matching row, 0 for None.
FirstJob(job_id) ==
  LET hits == {i \in 1..Len(training_jobs) : training_jobs[i].job_id = job_id}
  IN IF hits = {} THEN 0 ELSE Min(hits)

\* Mutant of TrainingJob: the status column defaults to "running".
TrainingJobRunning(model_name, uuid) ==
  [id |-> Len(training_jobs) + 1, job_id |-> uuid, model_name |-> model_name,
   status |-> "running"]

\* TrainingJob(model_name=...), with the column defaults.
TrainingJob(model_name, uuid) ==
  [id |-> Len(training_jobs) + 1, job_id |-> uuid, model_name |-> model_name,
   status |-> "pending"]

\* Mutant of UniqueJobId: the column has no unique constraint.
UniqueJobIdUnchecked(uuid) == TRUE

\* The unique=True constraint on training_jobs.job_id, checked at commit.
UniqueJobId(uuid) == \A i \in 1..Len(training_jobs) : training_jobs[i].job_id # uuid

\* default=lambda: str(uuid.uuid4()): the values a draw can give.  A draw is
\* either a value some row already carries (the collision the unique
\* constraint is there for) or a value no row carries.  Unused values are
\* interchangeable: no handler and no property below tells one from another,
\* so one of them stands for every unused value.
uuid4 ==
  LET used == {training_jobs[i].job_id : i \in 1..Len(training_jobs)}
      unused == UUIDs \ used
  IN used \cup (IF unused = {} THEN {} ELSE {CHOOSE u \in unused : TRUE})

\* Metric(**metric.dict())
Metric(body) ==
  [id |-> Len(metrics) + 1, job_id |-> body.job_id, metric_name |-> body.metric_name,
   value |-> body.value]

\* Hyperparameter(**hyperparameter.dict())
Hyperparameter(body) ==
  [id |-> Len(hyperparameters) + 1, job_id |-> body.job_id,
   param_name |-> body.param_name, param_value |-> body.param_value]

\* ModelVersion(**model.dict())
ModelVersion(body) ==
  [id |-> Len(model_versions) + 1, model_name |-> body.model_name,
   version |-> body.version]

\* Mutant of SetStatus: a job that is "done" keeps its status.
SetStatusTerminal(i, s) ==
  IF training_jobs[i].status = "done" THEN training_jobs
  ELSE [training_jobs EXCEPT ![i].status = s]

\* Mutant of SetStatus: the update is not restricted to the job found.
SetStatusAll(i, s) ==
  [k \in 1..Len(training_jobs) |-> [training_jobs[k] EXCEPT !.status = s]]

\* job.status = status.status
SetStatus(i, s) == [training_jobs EXCEPT ![i].status = s]

\* db.query(Metric).filter(Metric.job_id == job_id).all()
MetricsOf(job_id) == SelectSeq(metrics, LAMBDA m : m.job_id = job_id)

\* db.query(Hyperparameter).filter(Hyperparameter.job_id == job_id).all()
HyperparametersOf(job_id) == SelectSeq(hyperparameters, LAMBDA h : h.job_id = job_id)

\* db.query(ModelVersion).filter(ModelVersion.model_name == model_name).all()
ModelVersionsOf(model_name) ==
  SelectSeq(model_versions, LAMBDA m : m.model_name = model_name)

\* ---- Tracking Mirror (mlflow's fluent API) --------------------------------
\* A run of the tracking server.  Entries carry the job_id of the request
\* they were forwarded for.
Run(run_name, params, run_metrics, status) ==
  [run_name |-> run_name, params |-> params, metrics |-> run_metrics, status |-> status]

Entries(map, job_id) == {[key |-> e[1], value |-> e[2], job |-> job_id] : e \in map}

\* Mutant of StartRunBlock: hyperparameters go to log_params and config to
\* log_metrics.
StartRunBlockSwapped(job_id, body, failed) ==
  CASE failed = "start_run" -> runs
    [] failed = "log_params" -> Append(runs, Run(job_id, {}, {}, "FAILED"))
    [] failed = "log_metrics" ->
         Append(runs, Run(job_id, Entries(body.hyperparameters, job_id), {}, "FAILED"))
    [] OTHER ->
         Append(runs, Run(job_id, Entries(body.hyperparameters, job_id),
                          Entries(body.config, job_id), "FINISHED"))

\* with mlflow.start_run(run_name=...): log_params(config); log_metrics(hyperparameters)
\* The outcomes of the block, by the call that raised ("none": no call did).
\* Leaving the block ends the run, also when a call inside it raised.
StartRunBlock(job_id, body, failed) ==
  CASE failed = "start_run" -> runs
    [] failed = "log_params" -> Append(runs, Run(job_id, {}, {}, "FAILED"))
    [] failed = "log_metrics" ->
         Append(runs, Run(job_id, Entries(body.config, job_id), {}, "FAILED"))
    [] OTHER ->
         Append(runs, Run(job_id, Entries(body.config, job_id),
                          Entries(body.hyperparameters, job_id), "FINISHED"))

\* The run a fluent logging call writes to: the thread's active run, or a run
\* it starts itself, which stays the thread's active run.
TargetRuns(w) == IF active[w] = 0 THEN Append(runs, Run("generated", {}, {}, "RUNNING")) ELSE runs

TargetRun(w) == IF active[w] = 0 THEN Len(runs) + 1 ELSE active[w]

\* mlflow.log_param(key, value) on thread w
LogParam(w, key, value, job_id) ==
  [TargetRuns(w) EXCEPT ![TargetRun(w)].params =
     @ \cup {[key |-> key, value |-> value, job |-> job_id]}]

\* mlflow.log_metric(key, value, step=step) on thread w
LogMetric(w, key, value, step, job_id) ==
  [TargetRuns(w) EXCEPT ![TargetRun(w)].metrics =
     @ \cup {[key |-> key, value |-> value, step |-> step, job |-> job_id]}]

\* A parameter of a run cannot be given a second value.
ParamConflict(w, key, value) ==
  /\ active[w] # 0
  /\ \E p \in runs[active[w]].params : p.key = key /\ p.value # value

\* ---- Init ---------------------------------------------------------------
Init ==
  /\ model_versions = <<>>
  /\ training_jobs = <<>>
  /\ metrics = <<>>
  /\ hyperparameters = <<>>
  /\ runs = <<>>
  /\ active = [w \in Workers |-> 0]
  /\ sessions = {}
  /\ pc = [w \in Workers |-> "idle"]
  /\ req = [w \in Workers |-> NoReq]
  /\ local = [w \in Workers |-> NoRow]
  /\ resp = [w \in Workers |-> NoResp]
  /\ logged_for = <<>>
  /\ last_set = [u \in UUIDs |-> "none"]
  /\ features = <<>>
  /\ called = [op |-> "none"]
  /\ lifecycle = <<>>

\* ---- requests -----------------------------------------------------------
\* Room for one more row in the bounded tables.
Room == Len(metrics) + Len(hyperparameters) + Len(model_versions) < MaxRows

\* A request arrives at an idle worker thread; get_db up to its yield gives
\* it a session.
Begin(w, r) ==
  /\ pc[w] = "idle"
  /\ req' = [req EXCEPT ![w] = r]
  /\ sessions' = sessions \cup {w}

Return(w, r) ==
  /\ resp' = [resp EXCEPT ![w] = r]
  /\ pc' = [pc EXCEPT ![w] = "respond"]

Forward(w) ==
  /\ resp' = resp
  /\ pc' = [pc EXCEPT ![w] = "mirror"]

Forwarding(w, op) == pc[w] = "mirror" /\ req[w].op = op

\* Mutant of get_db: the session is closed only after a response, not when
\* the handler raised.
get_db_unless_raised(w) ==
  /\ pc[w] = "respond"
  /\ sessions' = IF resp[w].code = 200 THEN sessions \ {w} ELSE sessions
  /\ pc' = [pc EXCEPT ![w] = "idle"]
  /\ req' = [req EXCEPT ![w] = NoReq]
  /\ local' = [local EXCEPT ![w] = NoRow]
  /\ resp' = [resp EXCEPT ![w] = NoResp]
  /\ UNCHANGED <<feature, store, mirror, history>>

\* get_db's finally: the response or the error has left the handler.
get_db(w) ==
  /\ pc[w] = "respond"
  /\ sessions' = sessions \ {w}
  /\ pc' = [pc EXCEPT ![w] = "idle"]
  /\ req' = [req EXCEPT ![w] = NoReq]
  /\ local' = [local EXCEPT ![w] = NoRow]
  /\ resp' = [resp EXCEPT ![w] = NoResp]
  /\ UNCHANGED <<feature, store, mirror, history>>

create_model_version(w) ==
  /\ Room
  /\ \E model \in ModelVersionCreate :
       /\ Begin(w, [op |-> "create_model_version", body |-> model])
       /\ model_versions' = Append(model_versions, ModelVersion(model))
       /\ Return(w, Ok(ModelVersion(model)))
  /\ UNCHANGED <<feature, training_jobs, metrics, hyperparameters, mirror, history, local>>

get_model_versions(w) ==
  /\ \E model_name \in ModelNames :
       /\ Begin(w, [op |-> "get_model_versions", model_name |-> model_name])
       /\ Return(w, Ok(ModelVersionsOf(model_name)))
  /\ UNCHANGED <<feature, store, mirror, history, local>>

\* Mutant of create_training_job: the row is not committed before the
\* mirror calls.
create_training_job_uncommitted(w) ==
  /\ \E job \in TrainingJobCreate, uuid \in uuid4 :
       LET db_job == TrainingJob(job.model_name, uuid)
       IN /\ Begin(w, [op |-> "create_training_job", body |-> job])
          /\ IF UniqueJobId(uuid)
             THEN /\ local' = [local EXCEPT ![w] = db_job]
                  /\ Forward(w)
             ELSE /\ Return(w, Unhandled("IntegrityError"))
                  /\ UNCHANGED local
  /\ UNCHANGED <<feature, store, mirror, history>>

\* create_training_job up to db.refresh: uuid4 draws the job_id, the commit
\* inserts the row or is rejected by the unique constraint.
create_training_job(w) ==
  /\ \E job \in TrainingJobCreate, uuid \in uuid4 :
       LET db_job == TrainingJob(job.model_name, uuid)
       IN /\ Begin(w, [op |-> "create_training_job", body |-> job])
          /\ IF UniqueJobId(uuid)
             THEN /\ training_jobs' = Append(training_jobs, db_job)
                  /\ local' = [local EXCEPT ![w] = db_job]
                  /\ Forward(w)
             ELSE /\ Return(w, Unhandled("IntegrityError"))
                  /\ UNCHANGED <<training_jobs, local>>
  /\ UNCHANGED <<feature, model_versions, metrics, hyperparameters, mirror, history>>

\* create_training_job from mlflow.start_run to its return.
create_training_job_mirror(w) ==
  /\ Forwarding(w, "create_training_job")
  /\ IF active[w] # 0
     THEN \* start_run refuses to start a run while the thread has an active one
          /\ Return(w, Unhandled("MlflowException"))
          /\ runs' = runs
     ELSE \E failed \in {"start_run", "log_params", "log_metrics", "none"} :
          /\ runs' = StartRunBlock(local[w].job_id, req[w].body, failed)
          /\ Return(w, IF failed = "none" THEN Ok(local[w])
                       ELSE Unhandled("TrackingMirrorError"))
  /\ UNCHANGED <<feature, store, active, history, sessions, req, local>>

get_training_job(w) ==
  /\ \E job_id \in UUIDs :
       LET job == FirstJob(job_id)
       IN /\ Begin(w, [op |-> "get_training_job", job_id |-> job_id])
          /\ Return(w, IF job = 0 THEN HTTPException(404, "Job not found")
                       ELSE Ok(training_jobs[job]))
  /\ UNCHANGED <<feature, store, mirror, history, local>>

update_training_job(w) ==
  /\ \E job_id \in UUIDs, status \in TrainingJobStatusUpdate :
       LET job == FirstJob(job_id)
       IN /\ Begin(w, [op |-> "update_training_job", job_id |-> job_id, body |-> status])
          /\ IF job = 0
             THEN /\ Return(w, HTTPException(404, "Job not found"))
                  /\ UNCHANGED <<training_jobs, last_set>>
             ELSE /\ training_jobs' = SetStatus(job, status.status)
                  /\ last_set' = [last_set EXCEPT ![job_id] = status.status]
                  /\ Return(w, Ok(training_jobs'[job]))
  /\ UNCHANGED <<feature, model_versions, metrics, hyperparameters, mirror, logged_for, local>>

\* Mutant of log_metric: a metric equal to one already stored for the job is
\* not stored again.
log_metric_dedup(w) ==
  /\ \E job_id \in UUIDs, metric \in MetricCreate :
       LET job == FirstJob(job_id)
           stored == \E i \in 1..Len(metrics) :
                       /\ metrics[i].job_id = metric.job_id
                       /\ metrics[i].metric_name = metric.metric_name
                       /\ metrics[i].value = metric.value
       IN /\ Begin(w, [op |-> "log_metric", job_id |-> job_id, body |-> metric])
          /\ IF job = 0
             THEN /\ Return(w, HTTPException(404, "Job not found"))
                  /\ UNCHANGED <<metrics, logged_for>>
             ELSE /\ Room
                  /\ metrics' = IF stored THEN metrics ELSE Append(metrics, Metric(metric))
                  /\ logged_for' = IF stored THEN logged_for ELSE Append(logged_for, job_id)
                  /\ Forward(w)
  /\ UNCHANGED <<feature, model_versions, training_jobs, hyperparameters, mirror, last_set, local>>

\* log_metric up to db.refresh(db_metric).
log_metric(w) ==
  /\ \E job_id \in UUIDs, metric \in MetricCreate :
       LET job == FirstJob(job_id)
       IN /\ Begin(w, [op |-> "log_metric", job_id |-> job_id, body |-> metric])
          /\ IF job = 0
             THEN /\ Return(w, HTTPException(404, "Job not found"))
                  /\ UNCHANGED <<metrics, logged_for>>
             ELSE /\ Room
                  /\ metrics' = Append(metrics, Metric(metric))
                  /\ logged_for' = Append(logged_for, job_id)
                  /\ Forward(w)
  /\ UNCHANGED <<feature, model_versions, training_jobs, hyperparameters, mirror, last_set, local>>

\* log_metric's last two lines.  The step argument reads metric.timestamp, and
\* metric is the MetricCreate body, which has no such field: evaluating the
\* argument raises AttributeError before mlflow.log_metric is entered.
log_metric_mirror(w) ==
  /\ Forwarding(w, "log_metric")
  /\ IF "timestamp" \in DOMAIN req[w].body
     THEN \E ok \in BOOLEAN :
          /\ runs' = IF ok THEN LogMetric(w, req[w].body.metric_name, req[w].body.value,
                                          req[w].body.timestamp, req[w].job_id)
                     ELSE runs
          /\ active' = IF ok THEN [active EXCEPT ![w] = TargetRun(w)] ELSE active
          /\ Return(w, IF ok THEN Ok(training_jobs[FirstJob(req[w].job_id)])
                       ELSE Unhandled("TrackingMirrorError"))
     ELSE /\ Return(w, Unhandled("AttributeError"))
          /\ UNCHANGED <<runs, active>>
  /\ UNCHANGED <<feature, store, history, sessions, req, local>>

\* Mutant of log_hyperparameter: the row is not committed before the
\* mirror call.
log_hyperparameter_uncommitted(w) ==
  /\ \E job_id \in UUIDs, hyperparameter \in HyperparameterCreate :
       LET job == FirstJob(job_id)
       IN /\ Begin(w, [op |-> "log_hyperparameter", job_id |-> job_id,
                       body |-> hyperparameter])
          /\ IF job = 0
             THEN Return(w, HTTPException(404, "Job not found"))
             ELSE Forward(w)
  /\ UNCHANGED <<feature, store, mirror, history, local>>

\* log_hyperparameter up to db.refresh(db_hyperparam).
log_hyperparameter(w) ==
  /\ \E job_id \in UUIDs, hyperparameter \in HyperparameterCreate :
       LET job == FirstJob(job_id)
       IN /\ Begin(w, [op |-> "log_hyperparameter", job_id |-> job_id,
                       body |-> hyperparameter])
          /\ IF job = 0
             THEN /\ Return(w, HTTPException(404, "Job not found"))
                  /\ UNCHANGED hyperparameters
             ELSE /\ Room
                  /\ hyperparameters' = Append(hyperparameters, Hyperparameter(hyperparameter))
                  /\ Forward(w)
  /\ UNCHANGED <<feature, model_versions, training_jobs, metrics, mirror, history, local>>

\* log_hyperparameter's last two lines: mlflow.log_param outside any
\* start_run block.  "start_run": the run it would start could not be created;
\* "log_param": the parameter could not be written; "none": it was written.
log_hyperparameter_mirror(w) ==
  /\ Forwarding(w, "log_hyperparameter")
  /\ \E failed \in {"start_run", "log_param", "none"} :
       LET body == req[w].body
           refused == ParamConflict(w, body.param_name, body.param_value)
       IN /\ failed = "start_run" => active[w] = 0
          /\ runs' = CASE failed = "start_run" -> runs
                       [] failed = "log_param" \/ refused -> TargetRuns(w)
                       [] OTHER -> LogParam(w, body.param_name, body.param_value,
                                            req[w].job_id)
          /\ active' = IF failed = "start_run" THEN active
                       ELSE [active EXCEPT ![w] = TargetRun(w)]
          /\ Return(w, CASE failed # "none" -> Unhandled("TrackingMirrorError")
                         [] refused -> Unhandled("MlflowException")
                         [] OTHER -> Ok(training_jobs[FirstJob(req[w].job_id)]))
  /\ UNCHANGED <<feature, store, history, sessions, req, local>>

get_metrics(w) ==
  /\ \E job_id \in UUIDs :
       /\ Begin(w, [op |-> "get_metrics", job_id |-> job_id])
       /\ Return(w, Ok(MetricsOf(job_id)))
  /\ UNCHANGED <<feature, store, mirror, history, local>>

get_hyperparameters(w) ==
  /\ \E job_id \in UUIDs :
       /\ Begin(w, [op |-> "get_hyperparameters", job_id |-> job_id])
       /\ Return(w, Ok(HyperparametersOf(job_id)))
  /\ UNCHANGED <<feature, store, mirror, history, local>>

\* list_mlflow_runs takes no session.  search_runs either fails or returns a
\* DataFrame, whose iteration yields column names: to_dictionary() on a
\* string raises AttributeError.
list_mlflow_runs(w) ==
  /\ pc[w] = "idle"
  /\ req' = [req EXCEPT ![w] = [op |-> "list_mlflow_runs"]]
  /\ \E e \in {"TrackingMirrorError", "AttributeError"} : Return(w, Unhandled(e))
  /\ UNCHANGED <<feature, store, mirror, history, sessions, local>>

Next ==
  \E w \in Workers :
    \/ create_model_version(w)
    \/ get_model_versions(w)
    \/ create_training_job(w)
    \/ create_training_job_mirror(w)
    \/ get_training_job(w)
    \/ update_training_job(w)
    \/ log_metric(w)
    \/ log_metric_mirror(w)
    \/ log_hyperparameter(w)
    \/ log_hyperparameter_mirror(w)
    \/ get_metrics(w)
    \/ get_hyperparameters(w)
    \/ list_mlflow_runs(w)
    \/ get_db(w)

Spec == Init /\ [][Next]_vars

\* ---- ModelFeature ---------------------------------------------------------
\* Optional[Dict] arguments: <<>> is None, <<d>> the dict d (a set of pairs).
FeatureConfigs == {<<>>, <<{}>>, <<{<<"key", "value">>}>>}

\* Arguments of process: a str, an int, a dict or a list.  A dict or a list
\* is held as its literal text.
Data ==
  {[type |-> "str", int |-> 0, text |-> "string data"],
   [type |-> "int", int |-> 123, text |-> ""],
   [type |-> "dict", int |-> 0, text |-> "{'key': 'value'}"],
   [type |-> "list", int |-> 0, text |-> "['list', 'data']"]}

Digit(d) == <<"0", "1", "2", "3", "4", "5", "6", "7", "8", "9">>[d + 1]

\* The decimal digits of n, most significant first.
RECURSIVE Digits(_)
Digits(n) == IF n < 10 THEN <<Digit(n)>> ELSE Append(Digits(n \div 10), Digit(n % 10))

\* str(data): the text of a str, dict or list as it is, the digits of an int.
Str(data) == IF data.type = "int" THEN Digits(data.int) ELSE <<data.text>>

\* ModelFeature.__init__: self.config = config or {}
ModelFeature(config) ==
  [config |-> IF config = <<>> THEN {} ELSE config[1], initialized |-> FALSE]

\* _setup_resources: a placeholder that does nothing and raises nothing.
SetupResourcesRaises == FALSE

\* Mutant of ProcessResult: process does not look at the flag.
ProcessResultUnguarded(f, data) ==
  [status |-> "success", input |-> Str(data), processed |-> TRUE]

\* What process(data) returns or raises on instance f.
ProcessResult(f, data) ==
  IF ~features[f].initialized
  THEN [raised |-> "RuntimeError", message |-> "Feature not initialized"]
  ELSE [status |-> "success", input |-> Str(data), processed |-> TRUE]

create_feature_instance ==
  /\ Len(features) < MaxFeatures
  /\ \E config \in FeatureConfigs :
       /\ features' = Append(features, ModelFeature(config))
       /\ called' = [op |-> "create_feature_instance", instance |-> Len(features) + 1]
  /\ lifecycle' = Append(lifecycle, "none")
  /\ UNCHANGED service

initialize(f) ==
  /\ f \in DOMAIN features
  /\ features' = IF SetupResourcesRaises THEN features
                 ELSE [features EXCEPT ![f].initialized = TRUE]
  /\ called' = [op |-> "initialize", instance |-> f, result |-> ~SetupResourcesRaises]
  /\ lifecycle' = [lifecycle EXCEPT ![f] = "initialize"]
  /\ UNCHANGED service

process(f) ==
  /\ f \in DOMAIN features
  /\ \E data \in Data :
       called' = [op |-> "process", instance |-> f, data |-> data,
                  result |-> ProcessResult(f, data)]
  /\ UNCHANGED <<features, lifecycle, service>>

cleanup(f) ==
  /\ f \in DOMAIN features
  /\ features' = [features EXCEPT ![f].initialized = FALSE]
  /\ called' = [op |-> "cleanup", instance |-> f]
  /\ lifecycle' = [lifecycle EXCEPT ![f] = "cleanup"]
  /\ UNCHANGED service

NextFeature ==
  \/ create_feature_instance
  \/ \E f \in 1..MaxFeatures :
       \/ initialize(f)
       \/ process(f)
       \/ cleanup(f)

SpecFeature == Init /\ [][NextFeature]_vars

\* ---- properties ---------------------------------------------------------
JobIds == {training_jobs[i].job_id : i \in 1..Len(training_jobs)}

Responded(w, op) == pc[w] = "respond" /\ req[w].op = op

NotFound == HTTPException(404, "Job not found")

\* Worker w takes the first step of a request for op.
Begins(w, op) == pc[w] = "idle" /\ pc'[w] # "idle" /\ req'[w].op = op

\* C1: every Metric row and every Hyperparameter row carries the job_id of
\* some TrainingJob row.
C1_RowsReferToJobs ==
  /\ \A i \in 1..Len(metrics) : metrics[i].job_id \in JobIds
  /\ \A i \in 1..Len(hyperparameters) : hyperparameters[i].job_id \in JobIds

\* C2: log_metric, log_hyperparameter and update_status on a path job_id that
\* matches no job answer 404 "Job not found" at once, and neither the store
\* nor the mirror is changed.
C2_NotFoundChangesNothing ==
  [][\A w \in Workers :
       \A op \in {"log_metric", "log_hyperparameter", "update_training_job"} :
         (Begins(w, op) /\ req'[w].job_id \notin JobIds)
           => /\ pc'[w] = "respond"
              /\ resp'[w] = NotFound
              /\ store' = store
              /\ mirror' = mirror]_vars

C2_Witness ==
  \E w \in Workers :
    /\ Responded(w, "log_metric")
    /\ resp[w] = NotFound
    /\ req[w].job_id \notin JobIds
    /\ JobIds # {}

\* C3: no two TrainingJob rows share a job_id; a create_job that inserts a
\* row takes a job_id no earlier job has, and one whose job_id collides is
\* rejected and inserts nothing.
C3_JobIdsUnique ==
  [][/\ \A i, j \in 1..Len(training_jobs') :
          training_jobs'[i].job_id = training_jobs'[j].job_id => i = j
     /\ \A w \in Workers :
          Begins(w, "create_training_job")
            => IF pc'[w] = "mirror"
               THEN /\ local'[w].job_id \notin JobIds
                    /\ training_jobs' = Append(training_jobs, local'[w])
               ELSE /\ resp'[w] = Unhandled("IntegrityError")
                    /\ training_jobs' = training_jobs]_vars

C3_Witness ==
  /\ Len(training_jobs) = 2
  /\ \E w \in Workers :
       Responded(w, "create_training_job") /\ resp[w] = Unhandled("IntegrityError")

\* C4: update_status on an existing job succeeds for every status and every
\* prior status, and a get_job that follows it, with no other update_status
\* on that job in between, returns the status it wrote.
C4_StatusReadBack ==
  \A w \in Workers :
    /\ (Responded(w, "update_training_job") /\ req[w].job_id \in JobIds)
         => /\ resp[w].code = 200
            /\ resp[w].body.job_id = req[w].job_id
            /\ resp[w].body.status = req[w].body.status
    /\ (/\ Responded(w, "get_training_job")
        /\ req[w].job_id \in JobIds
        /\ last_set[req[w].job_id] # "none")
         => /\ resp[w].code = 200
            /\ resp[w].body.job_id = req[w].job_id
            /\ resp[w].body.status = last_set[req[w].job_id]

\* A job read back as "pending" after an update returned it to "pending".
C4_Witness ==
  \E w \in Workers :
    /\ Responded(w, "get_training_job")
    /\ resp[w].code = 200
    /\ resp[w].body.status = "pending"
    /\ last_set[req[w].job_id] = "pending"

\* C5: log_metric on an existing job inserts one Metric row, forwards the
\* metric to the Tracking Mirror and answers 200 with the job.
C5_LogMetricSucceeds ==
  \A w \in Workers :
    (Responded(w, "log_metric") /\ req[w].job_id \in JobIds)
      => /\ resp[w].code = 200
         /\ resp[w].body = training_jobs[FirstJob(req[w].job_id)]
         /\ \E r \in 1..Len(runs) : \E m \in runs[r].metrics :
              /\ m.key = req[w].body.metric_name
              /\ m.value = req[w].body.value

\* The metrics rows whose log_metric call named job_id in its path.
LoggedFor(job_id) ==
  LET rows[i \in 0..Len(metrics)] ==
        IF i = 0 THEN <<>>
        ELSE IF logged_for[i] = job_id THEN Append(rows[i - 1], metrics[i])
             ELSE rows[i - 1]
  IN rows[Len(metrics)]

\* C6: list_metrics(j) returns exactly the metrics logged for job j, in the
\* order they were logged.
C6_ListMetricsExact ==
  \A w \in Workers :
    Responded(w, "get_metrics") => resp[w].body = LoggedFor(req[w].job_id)

MirrorErrors == {"TrackingMirrorError", "MlflowException"}

\* The row the request of worker w commits is in its table.
Committed(w) ==
  CASE req[w].op = "create_training_job" ->
         /\ local[w].id \in 1..Len(training_jobs)
         /\ training_jobs[local[w].id].job_id = local[w].job_id
    [] req[w].op = "log_metric" ->
         \E i \in 1..Len(metrics) :
           /\ metrics[i].job_id = req[w].body.job_id
           /\ metrics[i].metric_name = req[w].body.metric_name
           /\ metrics[i].value = req[w].body.value
    [] req[w].op = "log_hyperparameter" ->
         \E i \in 1..Len(hyperparameters) :
           /\ hyperparameters[i].job_id = req[w].body.job_id
           /\ hyperparameters[i].param_name = req[w].body.param_name
           /\ hyperparameters[i].param_value = req[w].body.param_value
    [] OTHER -> FALSE

\* C7: a create_job, log_metric or log_hyperparameter whose Tracking Mirror
\* call fails ends in a propagated error, and the row it committed before
\* the call is still in the store.
C7_MirrorFailureKeepsRow ==
  \A w \in Workers :
    (/\ pc[w] = "respond"
     /\ req[w].op \in {"create_training_job", "log_metric", "log_hyperparameter"}
     /\ resp[w].code = 500
     /\ resp[w].error \in MirrorErrors)
      => Committed(w)

C7_Witness ==
  \E w \in Workers :
    /\ Responded(w, "log_hyperparameter")
    /\ resp[w] = Unhandled("TrackingMirrorError")
    /\ Committed(w)

\* C8: get_job on a job that was created and not updated since finds it and
\* returns it with status "pending".
C8_CreatedJobIsPending ==
  \A w \in Workers :
    (/\ Responded(w, "get_training_job")
     /\ req[w].job_id \in JobIds
     /\ last_set[req[w].job_id] = "none")
      => /\ resp[w].code = 200
         /\ resp[w].body.job_id = req[w].job_id
         /\ resp[w].body.status = "pending"

C8_Witness ==
  \E w \in Workers :
    /\ Responded(w, "get_training_job")
    /\ resp[w].code = 200
    /\ last_set[req[w].job_id] = "none"

\* C9: when a request has ended, its worker thread has no tracking run open.
C9_NoRunOpenAfterRequest ==
  \A w \in Workers : pc[w] = "idle" => active[w] = 0

\* Table t' keeps every row of table t as it is.
Keeps(t, u) == Len(u) >= Len(t) /\ \A i \in 1..Len(t) : u[i] = t[i]

\* C10: rows are never deleted; Metric, Hyperparameter and ModelVersion rows
\* and a job's id, job_id and model_name never change; a job's status
\* changes only in an update_status on that job, to the status it asks for.
C10_OnlyStatusChanges ==
  [][/\ Keeps(metrics, metrics')
     /\ Keeps(hyperparameters, hyperparameters')
     /\ Keeps(model_versions, model_versions')
     /\ Len(training_jobs') >= Len(training_jobs)
     /\ \A i \in 1..Len(training_jobs) :
          /\ training_jobs'[i].id = training_jobs[i].id
          /\ training_jobs'[i].job_id = training_jobs[i].job_id
          /\ training_jobs'[i].model_name = training_jobs[i].model_name
          /\ training_jobs'[i].status # training_jobs[i].status
               => \E w \in Workers :
                    /\ Begins(w, "update_training_job")
                    /\ req'[w].job_id = training_jobs[i].job_id
                    /\ req'[w].body.status = training_jobs'[i].status]_vars

\* Two jobs, one updated to "done" in the request just handled, the other
\* still "pending".
C10_Witness ==
  \E w \in Workers :
    /\ Responded(w, "update_training_job")
    /\ resp[w].code = 200
    /\ resp[w].body.status = "done"
    /\ \E i \in 1..Len(training_jobs) :
         /\ training_jobs[i].job_id # req[w].job_id
         /\ training_jobs[i].status = "pending"
         /\ last_set[training_jobs[i].job_id] = "none"

C12_ListsOfUnknownJobAreEmpty ==
  \A w \in Workers :
    /\ (Responded(w, "get_metrics") \/ Responded(w, "get_hyperparameters"))
         => /\ resp[w].code = 200
            /\ req[w].job_id \notin JobIds => resp[w].body = <<>>
    /\ (Responded(w, "get_training_job") /\ req[w].job_id \notin JobIds)
         => resp[w] = NotFound

\* C13 as stated: every request in flight holds a session, and no session is
\* open for a worker that has no request in flight.
C13_EveryRequestHoldsASession ==
  sessions = {w \in Workers : pc[w] # "idle"}

\* C13: a worker holds a session exactly while it handles a request of a
\* handler that depends on get_db (every handler but list_mlflow_runs): the
\* session is closed when the request ends, whatever its outcome.
C13_SessionScopedToRequest ==
  sessions = {w \in Workers : pc[w] # "idle" /\ req[w].op # "list_mlflow_runs"}

\* A log_metric has committed its row, so it has ended in an error, and its
\* worker is idle again with its session closed.
C13_Witness ==
  \E w \in Workers : pc[w] = "idle" /\ w \notin sessions /\ Len(metrics) > 0

\* C15: a handler makes its mirror calls with its row committed, and every
\* run, parameter and metric the mirror holds has its row in the store: a
\* run named after a job_id its TrainingJob row, a parameter logged by
\* log_hyperparameter its Hyperparameter row, a metric logged by log_metric
\* its Metric row.
C15_MirrorFollowsStore ==
  /\ \A w \in Workers : pc[w] = "mirror" => Committed(w)
  /\ \A r \in 1..Len(runs) :
       IF runs[r].run_name = "generated"
       THEN /\ \A e \in runs[r].params :
                 \E i \in 1..Len(hyperparameters) :
                   /\ hyperparameters[i].param_name = e.key
                   /\ hyperparameters[i].param_value = e.value
            /\ \A e \in runs[r].metrics :
                 \E i \in 1..Len(metrics) :
                   /\ metrics[i].metric_name = e.key
                   /\ metrics[i].value = e.value
       ELSE runs[r].run_name \in JobIds

\* The mirror holds the finished run of a create_job and a parameter that a
\* log_hyperparameter forwarded.
C15_Witness ==
  /\ \E r \in 1..Len(runs) :
       runs[r].status = "FINISHED" /\ runs[r].run_name \in JobIds
  /\ \E r \in 1..Len(runs) :
       runs[r].run_name = "generated" /\ runs[r].params # {}

\* C16: every parameter and metric forwarded for job J is in a run whose
\* run_name is J's job_id, so no run holds entries of two jobs.
C16_EntriesInTheRunOfTheirJob ==
  \A r \in 1..Len(runs) :
    \A e \in runs[r].params \cup runs[r].metrics : e.job = runs[r].run_name

\* C17: a create_job that succeeds inserts one TrainingJob row with status
\* "pending" and no other row, then adds one run named after the new job_id
\* that holds config as parameters and hyperparameters as metrics, changes
\* nothing else and returns the row.
C17_CreateJobEffects ==
  [][\A w \in Workers :
       /\ (Begins(w, "create_training_job") /\ pc'[w] = "mirror")
            => /\ Len(training_jobs') = Len(training_jobs) + 1
               /\ \A i \in 1..Len(training_jobs) : training_jobs'[i] = training_jobs[i]
               /\ training_jobs'[Len(training_jobs')] = local'[w]
               /\ local'[w].status = "pending"
               /\ local'[w].model_name = req'[w].body.model_name
               /\ local'[w].job_id \notin JobIds
               /\ metrics' = metrics
               /\ hyperparameters' = hyperparameters
               /\ model_versions' = model_versions
               /\ mirror' = mirror
       /\ (Forwarding(w, "create_training_job") /\ resp'[w].code = 200)
            => /\ store' = store
               /\ active' = active
               /\ resp'[w].body = local[w]
               /\ runs' = Append(runs,
                    [run_name |-> local[w].job_id,
                     params |-> {[key |-> c[1], value |-> c[2], job |-> local[w].job_id] :
                                   c \in req[w].body.config},
                     metrics |-> {[key |-> h[1], value |-> h[2], job |-> local[w].job_id] :
                                    h \in req[w].body.hyperparameters},
                     status |-> "FINISHED"])]_vars

C17_Witness ==
  \E w \in Workers :
    /\ Responded(w, "create_training_job")
    /\ resp[w].code = 200
    /\ resp[w].body.status = "pending"
    /\ runs[Len(runs)].run_name = resp[w].body.job_id
    /\ \E e \in runs[Len(runs)].params : e.key = "epochs"
    /\ \E e \in runs[Len(runs)].metrics : e.key = "lr"

\* C14: process returns a result with status "success" and processed true
\* exactly when the last initialize() or cleanup() on the instance was an
\* initialize(), and raises RuntimeError("Feature not initialized")
\* otherwise, on a fresh instance included; initialize() returns True and
\* sets the flag, cleanup() clears it.
C14_ProcessNeedsInitialize ==
  /\ called.op = "process"
       => IF lifecycle[called.instance] = "initialize"
          THEN /\ called.result.status = "success"
               /\ called.result.processed = TRUE
               /\ called.result.input = Str(called.data)
          ELSE called.result =
                 [raised |-> "RuntimeError", message |-> "Feature not initialized"]
  /\ called.op = "initialize"
       => called.result = TRUE /\ features[called.instance].initialized
  /\ called.op = "cleanup" => ~features[called.instance].initialized
  /\ called.op = "create_feature_instance" => ~features[called.instance].initialized

\* process has raised on an instance that was initialized and cleaned up.
C14_Witness ==
  /\ called.op = "process"
  /\ lifecycle[called.instance] = "cleanup"
  /\ called.result.raised = "RuntimeError"

====
